---- MODULE Spec2Model ----
(***************************************************************************)
(* Projectile lab (src/lab01/source.js): the trajectory store kept by      *)
(* simulate() and clearAll(), the frame-driven playback started by         *)
(* animateProjectile(), and the integration loop of runPhysics().          *)
(*                                                                         *)
(* Real numbers are modelled in fixed point (integers); the not-a-number   *)
(* value of a parsed field is the string "NaN".                            *)
(***************************************************************************)
EXTENDS Integers, Sequences, FiniteSets, TLC

VARIABLES
    trajectories,   \* let trajectories = []        (line 7)
    colorIdx,       \* let colorIdx = 0             (line 8)
    computedKeys,   \* let computedKeys = new Set() (line 9)
    animFrame,      \* let animFrame = null         (line 10): "null", "pending" or "stale"
    animTraj,       \* let animTraj = null          (line 11): NoTraj or the entry played back
    animIdx,        \* let animIdx = 0              (line 12)
    isRunning,      \* let isRunning = false        (line 13)
    form,           \* the values of the input controls read by simulate()
    lastLog,        \* the kind of the last message written by log()
    dupRejected,    \* history: the values now in the controls were refused as a duplicate
    drawn,          \* activeIdx of the last drawAllTrajectories() call, NoActive without one
    ph              \* the local variables of one runPhysics() call

vars == <<trajectories, colorIdx, computedKeys, animFrame, animTraj, animIdx,
          isRunning, form, lastLog, dupRejected, drawn, ph>>

storeVars == <<trajectories, colorIdx, computedKeys>>
playVars  == <<animFrame, animTraj, animIdx, isRunning, drawn>>

---------------------------------------------------------------------------
(* Constants of the program *)

COLORS == <<"#00d4ff", "#ff6b35", "#7fff7f", "#ff4fa3",
            "#ffd700", "#b06fff", "#ff9999", "#00ffcc">>
MAX_TRAJ == 20
FramesPerPlayback == 300

(* Bounds of the model *)

\* Number of distinct parameter sets the operator can enter.
NumForms == 21
\* Longest point sequence a trajectory handed to the playback has.
MaxPts == 601

\* A parsed number: parseFloat() gives a number or NaN.
Num(v) == [nan |-> FALSE, v |-> v]
NaN == [nan |-> TRUE, v |-> 0]
NoTraj == [color |-> "none", npts |-> 0]
NoActive == -1

---------------------------------------------------------------------------
(* The input controls *)

\* parseFloat(...) || 0 : NaN and 0 both give 0.
OrZero(x) == IF x.nan THEN Num(0) ELSE x

\* The i-th parameter set the operator enters.  The sets differ in the time
\* step, from the coarsest to the finest; a few carry a field outside its physical range (v0 not a number,
\* mass 0, area negative) or leave y0 empty.
FormChoice(i) ==
    [dt        |-> Num(NumForms + 1 - i),
     cd        |-> Num(47),
     atmo      |-> "const",
     windSpeed |-> Num(0),
     windDir   |-> Num(0),
     v0        |-> IF i = 2 THEN NaN ELSE Num(50),
     angle     |-> Num(45),
     mass      |-> IF i = 4 THEN Num(0) ELSE Num(1),
     area      |-> IF i = 5 THEN Num(-1) ELSE Num(1),
     y0        |-> IF i = 1 THEN NaN ELSE Num(0)]

BadSteps == {NaN, Num(0)}

\* `${dt}_${cd}_${atmo}_${windSpeed}_${windDir}_${v0}_${angle}_${mass}_${area}_${y0}`
KeyOf(f) ==
    <<f.dt, f.cd, f.atmo, OrZero(f.windSpeed), OrZero(f.windDir),
      f.v0, f.angle, f.mass, f.area, OrZero(f.y0)>>

\* isNaN(dt) || dt <= 0
InvalidStep(dt) == dt.nan \/ dt.v <= 0


---------------------------------------------------------------------------
(* The trajectory store: simulate() lines 139-157, clearAll() lines 413-415 *)

\* The lengths result.pts can have for the parameters f: one point when the
\* loop body never runs, two when the first step yields NaN, more otherwise.
\* Only the finest time step is given the long sequence.
PointCounts(f) == IF f.dt.v <= 1 THEN {1, 2, MaxPts} ELSE {1, 2}

\* Faulty variant: the duplicate test never matches.
IsDuplicate_never(key, keys) == FALSE

\* computedKeys.has(key)
IsDuplicate(key, keys) == key \in keys

\* Faulty variants: the capacity test off by one, either way.
AtCapacity_late(trajs) == Len(trajs) > MAX_TRAJ
AtCapacity_early(trajs) == Len(trajs) >= MAX_TRAJ - 1

\* trajectories.length >= MAX_TRAJ
AtCapacity(trajs) == Len(trajs) >= MAX_TRAJ

\* Faulty variant: the palette is indexed one too far.
NextColor_shifted(idx) == COLORS[((idx + 1) % Len(COLORS)) + 1]

\* COLORS[colorIdx % COLORS.length]
NextColor(idx) == COLORS[(idx % Len(COLORS)) + 1]

\* const entry = { dt, color, shapeName, cd, atmo, windSpeed, ...result };
\* key is the fingerprint the entry was admitted under (a history field).
Entry(f, color, key) ==
    [dt |-> f.dt, color |-> color, cd |-> f.cd, atmo |-> f.atmo,
     windSpeed |-> OrZero(f.windSpeed), key |-> key]

\* cancelAnimationFrame(animFrame) on a truthy handle.
CancelFrame(a) == IF a = "pending" THEN "stale" ELSE a

\* animateProjectile(traj), lines 183-187 and 202.
StartPlayback(color, n) ==
    /\ animFrame' = "pending"
    /\ animTraj' = [color |-> color, npts |-> n]
    /\ animIdx' = 0
    /\ isRunning' = TRUE

\* if (isRunning) { log('Simulation already running!', 'warn'); return; }
SimulateRunning ==
    /\ isRunning
    /\ lastLog' = "running"
    /\ UNCHANGED <<storeVars, playVars, form, dupRejected, ph>>

\* if (isNaN(dt) || dt <= 0) { log('Invalid time step!', 'warn'); return; }
SimulateInvalid ==
    /\ ~isRunning
    /\ InvalidStep(form.dt)
    /\ lastLog' = "invalid"
    /\ UNCHANGED <<storeVars, playVars, form, dupRejected, ph>>

\* if (computedKeys.has(key)) { log(`Already computed ...`); return; }
SimulateDuplicate ==
    /\ ~isRunning
    /\ ~InvalidStep(form.dt)
    /\ IsDuplicate(KeyOf(form), computedKeys)
    /\ lastLog' = "duplicate"
    /\ dupRejected' = TRUE
    /\ UNCHANGED <<storeVars, playVars, form, ph>>

\* Faulty variant: the capacity test runs before the duplicate test.
SimulateCapacity_first ==
    /\ ~isRunning
    /\ ~InvalidStep(form.dt)
    /\ Len(trajectories) >= MAX_TRAJ
    /\ lastLog' = "capacity"
    /\ UNCHANGED <<storeVars, playVars, form, dupRejected, ph>>

\* if (trajectories.length >= MAX_TRAJ) { log(`Max ... reached`); return; }
SimulateCapacity ==
    /\ ~isRunning
    /\ ~InvalidStep(form.dt)
    /\ ~IsDuplicate(KeyOf(form), computedKeys)
    /\ AtCapacity(trajectories)
    /\ lastLog' = "capacity"
    /\ UNCHANGED <<storeVars, playVars, form, dupRejected, ph>>

\* Lines 149-178: the physics result is represented by its point count n.
SimulateAccept ==
    /\ ~isRunning
    /\ ~InvalidStep(form.dt)
    /\ ~IsDuplicate(KeyOf(form), computedKeys)
    /\ ~AtCapacity(trajectories)
    /\ \E n \in PointCounts(form) :
         LET key   == KeyOf(form)
             color == NextColor(colorIdx)
         IN  /\ colorIdx' = colorIdx + 1
             /\ computedKeys' = computedKeys \cup {key}
             /\ trajectories' = Append(trajectories, Entry(form, color, key))
             /\ lastLog' = "result"
             /\ drawn' = NoActive
             /\ StartPlayback(color, n)
    /\ UNCHANGED <<form, dupRejected, ph>>

Simulate ==
    \/ SimulateRunning
    \/ SimulateInvalid
    \/ SimulateDuplicate
    \/ SimulateCapacity
    \/ SimulateAccept

\* Math.max(1, Math.floor(traj.pts.length / 300))
StepSize(n) == IF n \div FramesPerPlayback >= 1 THEN n \div FramesPerPlayback ELSE 1

\* Faulty variant: the end test lets the index reach pts.length.
PastEnd_late(idx, n) == idx > n

\* if (animIdx >= traj.pts.length)
PastEnd(idx, n) == idx >= n

\* function step(), lines 189-201, run as the requested frame callback.
AnimStep ==
    /\ animFrame = "pending"
    /\ LET n   == animTraj.npts
           idx == animIdx + StepSize(n)
       IN  IF PastEnd(idx, n)
           THEN /\ animIdx' = n - 1
                /\ drawn' = NoActive
                /\ isRunning' = FALSE
                /\ animTraj' = NoTraj
                /\ animFrame' = "stale"
           ELSE /\ animIdx' = idx
                /\ drawn' = idx
                /\ animFrame' = "pending"
                /\ UNCHANGED <<isRunning, animTraj>>
    /\ UNCHANGED <<storeVars, form, lastLog, dupRejected, ph>>

\* if (isRunning) { log('Wait for simulation to finish!', 'warn'); return; }
ClearWhileRunning ==
    /\ isRunning
    /\ lastLog' = "wait"
    /\ UNCHANGED <<storeVars, playVars, form, dupRejected, ph>>

\* Faulty variant: clearAll() forgets the colour counter.
ClearStore_keepColor ==
    /\ ~isRunning
    /\ animFrame' = CancelFrame(animFrame)
    /\ trajectories' = <<>>
    /\ computedKeys' = {}
    /\ animTraj' = NoTraj
    /\ drawn' = NoActive
    /\ lastLog' = "cleared"
    /\ UNCHANGED <<colorIdx, animIdx, isRunning, form, dupRejected, ph>>

\* clearAll(), lines 412-425.
ClearStore ==
    /\ ~isRunning
    /\ animFrame' = CancelFrame(animFrame)
    /\ trajectories' = <<>>
    /\ colorIdx' = 0
    /\ computedKeys' = {}
    /\ animTraj' = NoTraj
    /\ drawn' = NoActive
    /\ lastLog' = "cleared"
    /\ UNCHANGED <<animIdx, isRunning, form, dupRejected, ph>>

ClearAll == ClearWhileRunning \/ ClearStore

\* The operator's next parameter set: the first one not yet computed.
Forms == [i \in 1..NumForms |-> FormChoice(i)]
FormKeys == [i \in 1..NumForms |-> KeyOf(FormChoice(i))]
FreshForms == {i \in 1..NumForms : FormKeys[i] \notin computedKeys}

SetForm ==
    /\ FreshForms # {}
    /\ LET i == CHOOSE j \in FreshForms : \A k \in FreshForms : j <= k
       IN  form' = Forms[i]
    /\ form' # form
    /\ dupRejected' = FALSE
    /\ UNCHANGED <<storeVars, playVars, lastLog, ph>>

\* The operator types an unusable time step into #customStep.
SetBadStep ==
    /\ \E b \in BadSteps : form' = [form EXCEPT !.dt = b]
    /\ form' # form
    /\ dupRejected' = FALSE
    /\ UNCHANGED <<storeVars, playVars, lastLog, ph>>

IdlePhysics == [pc |-> "idle"]

Init ==
    /\ trajectories = <<>>
    /\ colorIdx = 0
    /\ computedKeys = {}
    /\ animFrame = "null"
    /\ animTraj = NoTraj
    /\ animIdx = 0
    /\ isRunning = FALSE
    /\ form = FormChoice(1)
    /\ lastLog = "none"
    /\ dupRejected = FALSE
    /\ drawn = NoActive
    /\ ph = IdlePhysics

Next ==
    \/ Simulate
    \/ AnimStep
    \/ ClearAll
    \/ SetForm
    \/ SetBadStep

Spec == Init /\ [][Next]_vars

FairSpec == Spec /\ WF_vars(AnimStep)

---------------------------------------------------------------------------
(* runPhysics(), lines 66-118.  Reals are fixed-point numbers with three   *)
(* decimals: the integer n stands for n / 1000.                            *)

Scale == 1000
G == 9810

\* The step cap (20_000_000 in the source), the number of steps kept at full
\* resolution (50000) and the divisor of the sampling interval (5000), scaled
\* down so that a run of the loop is a few dozen steps.
maxSteps == 40
FullResSteps == 20
SampleDiv == 5

Mul(a, b) == (a * b) \div Scale
Div(a, b) == (a * Scale) \div b

RECURSIVE Bisect(_, _, _)
\* The largest r in lo..hi with r * r <= n.
Bisect(n, lo, hi) ==
    IF lo >= hi THEN lo
    ELSE LET mid == (lo + hi + 1) \div 2
         IN  IF mid * mid <= n THEN Bisect(n, mid, hi) ELSE Bisect(n, lo, mid - 1)

\* Math.sqrt
Sqrt(a) == Bisect(a * Scale, 0, 46340)

\* Math.cos and Math.sin of an angle given in degrees (angleDeg * Math.PI / 180).
Cos(deg) ==
    CASE deg = 0 -> 1000 [] deg = 30 -> 866 [] deg = 45 -> 707
      [] deg = 60 -> 500 [] deg = 90 -> 0 [] deg = 180 -> -1000
Sin(deg) ==
    CASE deg = 0 -> 0 [] deg = 30 -> 500 [] deg = 45 -> 707
      [] deg = 60 -> 866 [] deg = 90 -> 1000 [] deg = 180 -> 0

\* getAirDensity(altMeters, model) for the two constant models.
getAirDensity(altMeters, model) ==
    IF model = "const" THEN 1225 ELSE 1290

\* The parameters runPhysics() is called with.
PhysInputs ==
    [v0 : {10000, 12000}, angleDeg : {45, 60, 90}, mass : {1000},
     cd : {0, 470}, area : {100}, dt : {50, 100}, y0 : {0, 2000},
     windSpeed : {0, 3000}, windDirDeg : {0}, atmoModel : {"const", "const129"}]

\* Lines 67-78: the locals before the loop.  crossStep and crossX record the
\* step and the interpolated x of the first ground crossing (history).
PhysStart(p) ==
    [pc |-> "loop", p |-> p,
     windX |-> Mul(p.windSpeed, Cos(p.windDirDeg)),
     vx |-> Mul(p.v0, Cos(p.angleDeg)),
     vy |-> Mul(p.v0, Sin(p.angleDeg)),
     x |-> 0, y |-> p.y0,
     pts |-> <<[x |-> 0, y |-> p.y0]>>,
     maxH |-> p.y0, steps |-> 0, finalV |-> 0,
     crossStep |-> -1, crossX |-> 0]

\* while (y >= 0 && steps < maxSteps)
LoopCond(s) == s.y >= 0 /\ s.steps < maxSteps

\* if (steps < 50000 || steps % Math.max(1, Math.floor(steps / 5000)) === 0)
Retained(steps) ==
    \/ steps < FullResSteps
    \/ steps % (IF steps \div SampleDiv >= 1 THEN steps \div SampleDiv ELSE 1) = 0

\* One pass through the loop body, lines 81-113.
LoopBody(s) ==
    LET p   == s.p
        rho == getAirDensity(s.y, p.atmoModel)
        k   == Div(Mul(Mul(Mul(500, p.cd), rho), p.area), p.mass)
        vrx == s.vx - s.windX
        vry == s.vy
        vr  == Sqrt(Mul(vrx, vrx) + Mul(vry, vry))
        ax  == IF vr > 0 THEN 0 - Mul(Mul(k, vrx), vr) ELSE 0
        ay  == IF vr > 0 THEN (0 - G) - Mul(Mul(k, vry), vr) ELSE 0 - G
        vx1 == s.vx + Mul(ax, p.dt)
        vy1 == s.vy + Mul(ay, p.dt)
        x1  == s.x + Mul(vx1, p.dt)
        y1  == s.y + Mul(vy1, p.dt)
        prev == s.pts[Len(s.pts)]
        frac == Div(prev.y, prev.y - y1)
        x2  == IF y1 < 0 THEN prev.x + Mul(frac, x1 - prev.x) ELSE x1
        y2  == IF y1 < 0 THEN 0 ELSE y1
        first == y1 < 0 /\ s.crossStep = -1
    IN  [s EXCEPT
           !.vx = vx1, !.vy = vy1, !.x = x2, !.y = y2,
           !.maxH = IF y1 > s.maxH THEN y1 ELSE s.maxH,
           !.pts = IF Retained(s.steps)
                   THEN Append(s.pts, [x |-> x2, y |-> y2]) ELSE s.pts,
           !.steps = s.steps + 1,
           !.crossStep = IF first THEN s.steps ELSE s.crossStep,
           !.crossX = IF first THEN x2 ELSE s.crossX]

PhysStep ==
    /\ ph.pc = "loop"
    /\ LoopCond(ph)
    /\ ph' = LoopBody(ph)
    /\ UNCHANGED <<storeVars, playVars, form, lastLog, dupRejected>>

\* Lines 116-117: return { pts, range: x, maxH, finalV, steps }
PhysReturn ==
    /\ ph.pc = "loop"
    /\ ~LoopCond(ph)
    /\ ph' = [ph EXCEPT !.pc = "done",
                        !.finalV = Sqrt(Mul(ph.vx, ph.vx) + Mul(ph.vy, ph.vy))]
    /\ UNCHANGED <<storeVars, playVars, form, lastLog, dupRejected>>

PhysInit ==
    /\ trajectories = <<>>
    /\ colorIdx = 0
    /\ computedKeys = {}
    /\ animFrame = "null"
    /\ animTraj = NoTraj
    /\ animIdx = 0
    /\ isRunning = FALSE
    /\ form = FormChoice(1)
    /\ lastLog = "none"
    /\ dupRejected = FALSE
    /\ drawn = NoActive
    /\ ph \in {PhysStart(p) : p \in PhysInputs}

PhysNext == PhysStep \/ PhysReturn

SpecPhysics == PhysInit /\ [][PhysNext]_vars

---------------------------------------------------------------------------
(* Properties of the store and the playback *)

Palette(i) == COLORS[((i - 1) % 8) + 1]
StoredKeys == {trajectories[i].key : i \in 1..Len(trajectories)}

\* What an accepted insert does to the store.
AcceptedEffect ==
    /\ Len(trajectories') = Len(trajectories) + 1
    /\ SubSeq(trajectories', 1, Len(trajectories)) = trajectories
    /\ trajectories'[Len(trajectories')].key = KeyOf(form)
    /\ trajectories'[Len(trajectories')].color = COLORS[(colorIdx % 8) + 1]
    /\ computedKeys' = computedKeys \cup {KeyOf(form)}
    /\ colorIdx' = colorIdx + 1

\* C1: the store never holds more than 20 trajectories, and an insert is
\* reported as a capacity rejection only with the store at exactly 20.
C1_CapacityBound ==
    /\ Len(trajectories) <= 20
    /\ lastLog = "capacity" => Len(trajectories) = 20

\* 20 trajectories stored and a 21st, distinct one just refused for capacity.
C1_Witness ==
    /\ lastLog = "capacity"
    /\ Len(trajectories) = 20
    /\ Cardinality(StoredKeys) = 20
    /\ KeyOf(form) \notin StoredKeys

\* C2: computedKeys is exactly the set of the stored entries' fingerprints,
\* and no two stored entries share a fingerprint.
C2_KeysMatchEntries ==
    /\ computedKeys = StoredKeys
    /\ Cardinality(computedKeys) = Len(trajectories)

\* Several entries stored and a repeat of one of them just refused.
C2_Witness ==
    /\ Len(trajectories) >= 3
    /\ lastLog = "duplicate"
    /\ KeyOf(form) \in computedKeys

\* C3: the entry at position i (from 0) has colour COLORS[i mod 8], and no
\* step changes the colour of an entry that stays in the store.
C3_ColorByPosition ==
    /\ [](\A i \in 1..Len(trajectories) : trajectories[i].color = Palette(i))
    /\ [][\A i \in 1..Len(trajectories) :
            i <= Len(trajectories') => trajectories'[i].color = trajectories[i].color]_vars

\* Nine entries stored: the 9th has the colour of the 1st.
C3_Witness ==
    /\ Len(trajectories) >= 9
    /\ trajectories[9].color = trajectories[1].color
    /\ trajectories[8].color # trajectories[1].color

\* C4: a step that reports a duplicate or a capacity rejection leaves the
\* collection, the fingerprint set and the colour counter as they were; a
\* duplicate is reported whenever the fingerprint is stored, a capacity
\* rejection only for a fingerprint that is not.
C4_RejectAllOrNothing ==
    [][/\ lastLog' \in {"duplicate", "capacity"} => UNCHANGED storeVars
       /\ (lastLog' = "duplicate" /\ lastLog # "duplicate")
             => KeyOf(form) \in computedKeys
       /\ (lastLog' = "capacity" /\ lastLog # "capacity")
             => (KeyOf(form) \notin computedKeys /\ Len(trajectories) >= 20)]_vars

\* A duplicate refused while the store is full.
C4_Witness ==
    /\ lastLog = "duplicate"
    /\ Len(trajectories) = 20

\* C5 as claimed: in any state, simulate() with a usable time step, a new
\* fingerprint and fewer than 20 entries is accepted.
C5_AcceptedInAnyState ==
    [][(/\ Simulate
        /\ ~InvalidStep(form.dt)
        /\ KeyOf(form) \notin computedKeys
        /\ Len(trajectories) < 20) => AcceptedEffect]_vars

\* C5 (amended): while no playback is running, simulate() with a usable time
\* step ends in one of three ways (accepted, duplicate, capacity), and with a
\* new fingerprint and fewer than 20 entries it is accepted: the entry is
\* appended, its fingerprint added, its colour is COLORS[colorIdx mod 8] and
\* colorIdx grows by one.
C5_AcceptedWhenIdle ==
    [][(Simulate /\ ~isRunning /\ ~InvalidStep(form.dt)) =>
         /\ lastLog' \in {"result", "duplicate", "capacity"}
         /\ (KeyOf(form) \notin computedKeys /\ Len(trajectories) < 20)
               => (AcceptedEffect /\ lastLog' = "result")]_vars

\* An insert was just accepted into a store that already held entries.
C5_Witness ==
    /\ lastLog = "result"
    /\ isRunning
    /\ Len(trajectories) >= 2
    /\ colorIdx = Len(trajectories)

\* C6 as claimed: clearAll() in any state empties the store.
C6_ClearInAnyState ==
    [][ClearAll => (trajectories' = <<>> /\ computedKeys' = {} /\ colorIdx' = 0)]_vars

\* C6 (amended): while no playback is running, clearAll() empties the
\* collection and the fingerprint set and resets colorIdx to 0 in one step;
\* simulate() of values refused as a duplicate before is then accepted as the
\* only entry, with COLORS[0].
C6_ClearWhenIdle ==
    [][/\ (ClearAll /\ ~isRunning) =>
            (trajectories' = <<>> /\ computedKeys' = {} /\ colorIdx' = 0)
       /\ (Simulate /\ ~isRunning /\ dupRejected /\ lastLog = "cleared"
             /\ ~InvalidStep(form.dt)) =>
            /\ Len(trajectories') = 1
            /\ trajectories'[1].key = KeyOf(form)
            /\ trajectories'[1].color = COLORS[1]
            /\ colorIdx' = 1]_vars

\* Values refused as a duplicate are, after a clear, the first entry.
C6_Witness ==
    /\ dupRejected
    /\ lastLog = "result"
    /\ Len(trajectories) = 1
    /\ trajectories[1].key = KeyOf(form)
    /\ trajectories[1].color = COLORS[1]
    /\ trajectories[1].key # FormKeys[1]

\* x <= 0 or NaN, for a field that has to be positive.
NotPositive(x) == x.nan \/ x.v <= 0

Malformed(f) ==
    \/ InvalidStep(f.dt)
    \/ NotPositive(f.v0)
    \/ NotPositive(f.mass)
    \/ NotPositive(f.area)

\* C9: simulate() with a malformed parameter (time step, v0, mass or area
\* not a number or not positive) changes neither the collection, nor the
\* fingerprint set, nor the colour counter.
C9_MalformedRejected ==
    [][(Simulate /\ Malformed(form)) => UNCHANGED storeVars]_vars

Max(a, b) == IF a >= b THEN a ELSE b

\* C10: a playback always ends (isRunning becomes false again); each frame
\* moves the index by max(1, floor(pts.length / 300)); an index handed to the
\* drawing is within 0 .. pts.length - 1; and while isRunning is true no step
\* changes the collection, the fingerprint set or the colour counter.
C10_PlaybackFinishes ==
    /\ [](drawn # NoActive =>
            (isRunning /\ 0 <= drawn /\ drawn <= animTraj.npts - 1))
    /\ [][(isRunning /\ isRunning' /\ animIdx' # animIdx) =>
            animIdx' = animIdx + Max(1, animTraj.npts \div 300)]_vars
    /\ [][isRunning => UNCHANGED storeVars]_vars
    /\ (isRunning ~> ~isRunning)

\* Half way through a long playback, after a simulate() and a clearAll()
\* were refused.
C10_Witness ==
    /\ isRunning
    /\ animTraj.npts >= 600
    /\ drawn = animIdx
    /\ animIdx >= 300
    /\ lastLog = "wait"

---------------------------------------------------------------------------
(* Properties of runPhysics() *)

Landed(s) == s.crossStep # -1
LastPt(s) == s.pts[Len(s.pts)]

\* C7: the point of the first ground crossing is the final point: no pass
\* through the loop follows it, so a run that crossed the ground returns
\* with steps below the cap, and steps equals the cap only for a run that
\* never crossed.
C7_CrossingIsFinal ==
    ph.pc # "idle" =>
        /\ Landed(ph) => ph.steps = ph.crossStep + 1
        /\ (ph.pc = "done" /\ Landed(ph)) => ph.steps < maxSteps
        /\ (ph.pc = "done" /\ ph.steps = maxSteps) => ~Landed(ph)

\* C8: a run that reached the ground returns a point sequence that starts at
\* the launch point (0, y0) and ends at the landing point: y = 0 and x the
\* crossing interpolated at the first step with y < 0, which is the range.
C8_EndsAtLanding ==
    (ph.pc = "done" /\ Landed(ph)) =>
        /\ ph.pts[1] = [x |-> 0, y |-> ph.p.y0]
        /\ LastPt(ph).y = 0
        /\ LastPt(ph).x = ph.crossX
        /\ ph.x = ph.crossX

====
